---- MODULE Spec2Model ----
(***************************************************************************)
(* Model of the pokemon-research-team data core:                           *)
(*   src/src/tools/pokemon_api.py      PokemonAPI                          *)
(*   src/src/agents/research_agents.py ReporterAgent.generate_report       *)
(*   src/examples/fire_type_analysis.py fire_type_weakness_analysis        *)
(*                                                                         *)
(* Python dicts are insertion ordered: a dict is modelled as a sequence of *)
(* [k, v] entries with distinct keys.  list(set) has no specified order:   *)
(* a record keeps the elements of its weakness list as a set and the order *)
(* is chosen nondeterministically where the list is iterated.              *)
(***************************************************************************)
EXTENDS Integers, Sequences, FiniteSets, Bags, TLC

VARIABLES
    type_effectiveness,   \* PokemonAPI.type_effectiveness
    source,               \* lookup: the response the data source will give
    pokemon,              \* lookup: value returned by get_pokemon_by_name
    pc,                   \* position inside analyze_type_weaknesses
    pokemon_type,         \* analyze_type_weaknesses: its argument
    pokemon_names,        \* analyze_type_weaknesses: names of the category
    sample_pokemon,       \* analyze_type_weaknesses: pokemon_names[:sample_size]
    idx,                  \* number of names of sample_pokemon already fetched
    weakness_count,       \* analyze_type_weaknesses: dict weakness -> count
    total_pokemon,        \* analyze_type_weaknesses: number of present records
    fetched,              \* history: names passed to get_pokemon_by_name
    analyzed,             \* history: bag of the weakness sets of present records
    result,               \* value returned by analyze_type_weaknesses
    exception,            \* exception raised by the running call, or "none"
    research_data,        \* argument of the last generate_report call
    report_sections,      \* generate_report: the list that is joined
    report,               \* generate_report: the returned string
    wf                    \* fire_type_weakness_analysis: locals and position

vars == <<type_effectiveness, source, pokemon, pc,
          pokemon_type, pokemon_names, sample_pokemon, idx, weakness_count, total_pokemon, fetched,
          analyzed, result, exception, research_data, report_sections, report,
          wf>>

apiVars == <<type_effectiveness>>
lookupVars == <<source, pokemon>>
analyzeVars == <<pc, pokemon_type, pokemon_names, sample_pokemon, idx, weakness_count,
                 total_pokemon, fetched, analyzed, result, exception>>
reportVars == <<research_data, report_sections, report>>

\* Python's None
None == [kind |-> "None"]

Range(s) == {s[i] : i \in 1..Len(s)}

\* The second argument whatever the first.
MinUncapped(a, b) == b

Min(a, b) == IF a < b THEN a ELSE b

(***************************************************************************)
(* The type effectiveness chart                                            *)
(***************************************************************************)
Prof(w, r) == [weaknesses |-> w, resistances |-> r]

_get_simplified_type_chart ==
    [t \in {"fire", "water", "grass", "electric", "psychic", "ice", "dragon",
            "dark", "fairy", "normal", "fighting", "poison", "ground",
            "flying", "bug", "rock", "ghost", "steel"} |->
     CASE t = "fire" -> Prof(<<"water", "ground", "rock">>,
                             <<"fire", "grass", "ice", "bug", "steel", "fairy">>)
       [] t = "water" -> Prof(<<"electric", "grass">>,
                              <<"fire", "water", "ice", "steel">>)
       [] t = "grass" -> Prof(<<"fire", "ice", "poison", "flying", "bug">>,
                              <<"water", "electric", "grass", "ground">>)
       [] t = "electric" -> Prof(<<"ground">>,
                                 <<"electric", "flying", "steel">>)
       [] t = "psychic" -> Prof(<<"bug", "ghost", "dark">>,
                                <<"fighting", "psychic">>)
       [] t = "ice" -> Prof(<<"fire", "fighting", "rock", "steel">>,
                            <<"ice">>)
       [] t = "dragon" -> Prof(<<"ice", "dragon", "fairy">>,
                               <<"fire", "water", "electric", "grass">>)
       [] t = "dark" -> Prof(<<"fighting", "bug", "fairy">>,
                             <<"ghost", "dark">>)
       [] t = "fairy" -> Prof(<<"poison", "steel">>,
                              <<"fighting", "bug", "dark">>)
       [] t = "normal" -> Prof(<<"fighting">>, <<>>)
       [] t = "fighting" -> Prof(<<"flying", "psychic", "fairy">>,
                                 <<"rock", "bug", "dark">>)
       [] t = "poison" -> Prof(<<"ground", "psychic">>,
                               <<"grass", "fighting", "poison", "bug", "fairy">>)
       [] t = "ground" -> Prof(<<"water", "grass", "ice">>,
                               <<"poison", "rock">>)
       [] t = "flying" -> Prof(<<"electric", "ice", "rock">>,
                               <<"grass", "fighting", "bug">>)
       [] t = "bug" -> Prof(<<"fire", "flying", "rock">>,
                            <<"grass", "fighting", "ground">>)
       [] t = "rock" -> Prof(<<"water", "grass", "fighting", "ground", "steel">>,
                             <<"normal", "fire", "poison", "flying">>)
       [] t = "ghost" -> Prof(<<"ghost", "dark">>,
                              <<"poison", "bug">>)
       [] t = "steel" -> Prof(<<"fire", "fighting", "ground">>,
                              <<"normal", "grass", "ice", "flying", "psychic",
                                "bug", "rock", "dragon", "steel", "fairy">>)]

\* Outcomes of session.get(BASE_URL/type) in _load_type_effectiveness.
LoadOutcomes == {"ok", "bad_status", "request_error"}

\* A load that leaves the chart empty when the request fails.
LoadEmptyOnFailure(outcome) ==
    IF outcome = "ok" THEN _get_simplified_type_chart ELSE <<>>

_load_type_effectiveness(outcome) ==
    IF outcome = "ok"
    THEN _get_simplified_type_chart
    ELSE _get_simplified_type_chart

(***************************************************************************)
(* Raw records of the data source and their normalisation                  *)
(***************************************************************************)
\* A type name that is not a key of the chart.
UnknownType == "shadow"

TypeNames == DOMAIN _get_simplified_type_chart \cup {UnknownType}

\* Longest type list given to _parse_pokemon_data.
MaxTypes == 2

TypeLists == UNION {[1..n -> TypeNames] : n \in 0..MaxTypes}

\* stat['stat']['name'].replace('-', '_')
StatKey(stat_name) ==
    CASE stat_name = "special-attack" -> "special_attack"
      [] stat_name = "special-defense" -> "special_defense"
      [] OTHER -> stat_name

Stat(stat_name, base_stat) == [name |-> stat_name, base_stat |-> base_stat]

\* The stats lists the data source serves: a full one and one without
\* the hp and speed entries.
StatLists ==
    { <<Stat("hp", 39), Stat("attack", 52), Stat("defense", 43),
        Stat("special-attack", 60), Stat("special-defense", 50),
        Stat("speed", 65)>>,
      <<Stat("attack", 52), Stat("defense", 43),
        Stat("special-attack", 60), Stat("special-defense", 50)>> }

RawData(name, types, stats) == [name |-> name, types |-> types, stats |-> stats]

\* stats = {}; for stat in data['stats']: stats[stat_name] = base_stat; the
\* last entry of a name wins.  stats.get(key, default) reads the dict.
RECURSIVE StatsDictGet(_, _, _, _)
StatsDictGet(stats, i, key, default) ==
    IF i = 0 THEN default
    ELSE IF StatKey(stats[i].name) = key THEN stats[i].base_stat
    ELSE StatsDictGet(stats, i - 1, key, default)

StatsGet(stats, key) == StatsDictGet(stats, Len(stats), key, 0)

\* A loop that ends at the first type that is not a key of the chart.
RECURSIVE TypeLoopStopAtUnknown(_, _, _, _, _)
TypeLoopStopAtUnknown(chart, types, i, weaknesses, resistances) ==
    IF i > Len(types) THEN [weaknesses |-> weaknesses, resistances |-> resistances]
    ELSE IF types[i] \in DOMAIN chart
    THEN TypeLoopStopAtUnknown(chart, types, i + 1,
                               weaknesses \cup Range(chart[types[i]].weaknesses),
                               resistances \cup Range(chart[types[i]].resistances))
    ELSE [weaknesses |-> weaknesses, resistances |-> resistances]

\* A loop that gives a record without types the profile of "normal".
RECURSIVE TypeLoopDefaultNormal(_, _, _, _, _)
TypeLoopDefaultNormal(chart, types, i, weaknesses, resistances) ==
    IF Len(types) = 0
    THEN [weaknesses |-> Range(chart["normal"].weaknesses),
          resistances |-> Range(chart["normal"].resistances)]
    ELSE IF i > Len(types)
    THEN [weaknesses |-> weaknesses, resistances |-> resistances]
    ELSE IF types[i] \in DOMAIN chart
    THEN TypeLoopDefaultNormal(chart, types, i + 1,
                               weaknesses \cup Range(chart[types[i]].weaknesses),
                               resistances \cup Range(chart[types[i]].resistances))
    ELSE TypeLoopDefaultNormal(chart, types, i + 1, weaknesses, resistances)

\* A loop that updates each set with the other list of the profile.
RECURSIVE TypeLoopSwapped(_, _, _, _, _)
TypeLoopSwapped(chart, types, i, weaknesses, resistances) ==
    IF i > Len(types) THEN [weaknesses |-> weaknesses, resistances |-> resistances]
    ELSE IF types[i] \in DOMAIN chart
    THEN TypeLoopSwapped(chart, types, i + 1,
                         weaknesses \cup Range(chart[types[i]].resistances),
                         resistances \cup Range(chart[types[i]].weaknesses))
    ELSE TypeLoopSwapped(chart, types, i + 1, weaknesses, resistances)

\* A loop that assigns the sets of the current type instead of updating.
RECURSIVE TypeLoopOverwrite(_, _, _, _, _)
TypeLoopOverwrite(chart, types, i, weaknesses, resistances) ==
    IF i > Len(types) THEN [weaknesses |-> weaknesses, resistances |-> resistances]
    ELSE IF types[i] \in DOMAIN chart
    THEN TypeLoopOverwrite(chart, types, i + 1,
                           Range(chart[types[i]].weaknesses),
                           Range(chart[types[i]].resistances))
    ELSE TypeLoopOverwrite(chart, types, i + 1, weaknesses, resistances)

\* The loop over the types: a type that is a key of the chart adds its
\* weaknesses and resistances to the two sets.
RECURSIVE TypeLoop(_, _, _, _, _)
TypeLoop(chart, types, i, weaknesses, resistances) ==
    IF i > Len(types) THEN [weaknesses |-> weaknesses, resistances |-> resistances]
    ELSE IF types[i] \in DOMAIN chart
    THEN TypeLoop(chart, types, i + 1,
                  weaknesses \cup Range(chart[types[i]].weaknesses),
                  resistances \cup Range(chart[types[i]].resistances))
    ELSE TypeLoop(chart, types, i + 1, weaknesses, resistances)

\* The subtraction left out.
RemoveResistedKeep(weaknesses, resistances) == weaknesses

\* weaknesses = list(weaknesses - resistances), kept as its set of elements
RemoveResisted(weaknesses, resistances) == weaknesses \ resistances

_parse_pokemon_data(chart, data) ==
    LET acc == TypeLoop(chart, data.types, 1, {}, {})
    IN [name |-> data.name,
        types |-> data.types,
        hp |-> StatsGet(data.stats, "hp"),
        attack |-> StatsGet(data.stats, "attack"),
        defense |-> StatsGet(data.stats, "defense"),
        special_attack |-> StatsGet(data.stats, "special_attack"),
        special_defense |-> StatsGet(data.stats, "special_defense"),
        speed |-> StatsGet(data.stats, "speed"),
        weaknesses |-> RemoveResisted(acc.weaknesses, acc.resistances),
        resistances |-> acc.resistances]

\* Outcomes of session.get(BASE_URL/pokemon/name): a 200 response carrying
\* raw data, another status, or a RequestException.  The last two make
\* get_pokemon_by_name return None.
Response(status_code, data) ==
    [kind |-> "response", status_code |-> status_code, data |-> data]

\* A response whose status is not 200; its body is never read.
NotFound == [kind |-> "response", status_code |-> 404]

RequestException == [kind |-> "RequestException"]

get_pokemon_by_name(chart, response) ==
    IF response.kind = "response" /\ response.status_code = 200
    THEN _parse_pokemon_data(chart, response.data)
    ELSE None

\* The keys _parse_pokemon_data subscripts: data['name'], data['types'],
\* data['stats'].  A missing one raises KeyError.
RequiredKeys == {"name", "types", "stats"}

ParseRaises(data) == ~(RequiredKeys \subseteq DOMAIN data)

\* get_pokemon_by_name catches requests.RequestException only: a KeyError
\* of _parse_pokemon_data leaves it.
FetchRaises(response) ==
    /\ response.kind = "response"
    /\ response.status_code = 200
    /\ ParseRaises(response.data)

\* PokemonAPI(): the chart is loaded whatever the /type request gives.
Constructed ==
    \E outcome \in LoadOutcomes :
        type_effectiveness = _load_type_effectiveness(outcome)

\* No lookup has been made.
NoLookup == source = None /\ pokemon = None

\* analyze_type_weaknesses is not running and has not run.
NoAnalysis ==
    /\ pc = "idle"
    /\ pokemon_type = ""
    /\ pokemon_names = <<>>
    /\ sample_pokemon = <<>>
    /\ idx = 0
    /\ weakness_count = <<>>
    /\ total_pokemon = 0
    /\ fetched = <<>>
    /\ analyzed = EmptyBag
    /\ result = None
    /\ exception = "none"

\* generate_report has not been called.
NoReport == research_data = None /\ report_sections = <<>> /\ report = <<>>

\* The locals of fire_type_weakness_analysis before it is called.
WfIdle == [pc |-> "idle", fire_type_analysis |-> None,
           fire_pokemon_data |-> <<>>, fetched |-> 0, bound |-> {},
           exception |-> "none"]

Init == Constructed /\ NoLookup /\ NoAnalysis /\ NoReport /\ wf = WfIdle

(***************************************************************************)
(* Dicts and percentages                                                   *)
(***************************************************************************)
Entry(k, v) == [k |-> k, v |-> v]

DictKeys(d) == {d[i].k : i \in 1..Len(d)}

\* d.get(key, default)
DictGet(d, key, default) ==
    IF key \in DictKeys(d)
    THEN (CHOOSE e \in Range(d) : e.k = key).v
    ELSE default

\* d[key] = v: an existing key keeps its position, a new key goes last.
DictSet(d, key, v) ==
    IF key \in DictKeys(d)
    THEN [i \in 1..Len(d) |-> IF d[i].k = key THEN Entry(key, v) ELSE d[i]]
    ELSE Append(d, Entry(key, v))

\* sample_size = min(10, len(pokemon_names))
SampleCap == 10

RECURSIVE Gcd(_, _)
Gcd(a, b) == IF b = 0 THEN a ELSE Gcd(b, a % b)

RECURSIVE LcmUpTo(_)
LcmUpTo(n) == IF n <= 1 THEN 1
              ELSE LET l == LcmUpTo(n - 1) IN (l * n) \div Gcd(l, n)

\* A percentage is a number of 1/PctUnit percent, so that count / total * 100
\* is exact for every total the sample allows (1..SampleCap).  Rounding to
\* the nearest float is monotone and the percentages of one call differ by
\* at least 100/SampleCap, so comparisons of the floats are comparisons of
\* these numbers.
PctUnit == LcmUpTo(SampleCap)

\* (count / total_pokemon) * 100
Percentage(count, total) == (count * 100 * PctUnit) \div total

(***************************************************************************)
(* analyze_type_weaknesses                                                 *)
(***************************************************************************)
\* Longest list of names get_pokemon_by_type returns.
MaxNames == 11

\* A name is the number of its entry in the data source's list of the type.
NameLists == {[j \in 1..n |-> j] : n \in 0..MaxNames}

CategoryResponses ==
    {Response(200, names) : names \in NameLists}
    \cup {NotFound, RequestException}

get_pokemon_by_type(response) ==
    IF response.kind = "response" /\ response.status_code = 200
    THEN response.data
    ELSE <<>>

\* The type lists of the records the data source serves for the names of
\* the sample: a single type (weak to ground), a double type whose union
\* loses electric (weak to ground and grass), and a type that is not in the
\* chart (no weakness at all).
SampleTypeLists == { <<"electric">>, <<"water", "electric">>, <<UnknownType>> }

SampleStats == CHOOSE stats \in StatLists : Len(stats) = 6

SampleResponses ==
    {Response(200, RawData(name, types, SampleStats)) :
        name \in 1..MaxNames, types \in SampleTypeLists}
    \cup {NotFound, RequestException}

\* The data source answers a request for a name with that name's data, with
\* another status or with a request error.
Answers(response, name) ==
    IF response \in {NotFound, RequestException}
    THEN TRUE
    ELSE IF "name" \in DOMAIN response.data
    THEN response.data.name = name
    ELSE TRUE

\* The orders in which a list made from the set S can be iterated.
Orders(S) == {f \in [1..Cardinality(S) -> S] : Range(f) = S}

\* A loop that stores 1 instead of incrementing the stored count.
RECURSIVE CountWeaknessesNoIncrement(_, _, _)
CountWeaknessesNoIncrement(count, weaknesses, i) ==
    IF i > Len(weaknesses) THEN count
    ELSE CountWeaknessesNoIncrement(DictSet(count, weaknesses[i], 1),
                                    weaknesses, i + 1)

\* for weakness in pokemon.weaknesses:
\*     weakness_count[weakness] = weakness_count.get(weakness, 0) + 1
RECURSIVE CountWeaknesses(_, _, _)
CountWeaknesses(count, weaknesses, i) ==
    IF i > Len(weaknesses) THEN count
    ELSE CountWeaknesses(
            DictSet(count, weaknesses[i], DictGet(count, weaknesses[i], 0) + 1),
            weaknesses, i + 1)

\* The counter of present records left alone.
CountPresentNever(total) == total

\* total_pokemon += 1
CountPresent(total) == total + 1

\* The increment placed outside "if pokemon:".
TotalAfterFetchAlways(total, fetched_pokemon) == total + 1

\* if pokemon: total_pokemon += 1
TotalAfterFetch(total, fetched_pokemon) ==
    IF fetched_pokemon # None THEN CountPresent(total) ELSE total

\* A maximum that keeps the last of several equal items.
RECURSIVE MaxItemLast(_, _, _)
MaxItemLast(items, i, best) ==
    IF i > Len(items) THEN best
    ELSE IF items[i].v >= best.v THEN MaxItemLast(items, i + 1, items[i])
    ELSE MaxItemLast(items, i + 1, best)

\* max(items, key=lambda x: x[1]): the scan keeps the first of several
\* equal items.
RECURSIVE MaxItem(_, _, _)
MaxItem(items, i, best) ==
    IF i > Len(items) THEN best
    ELSE IF items[i].v > best.v THEN MaxItem(items, i + 1, items[i])
    ELSE MaxItem(items, i + 1, best)

\* A mode that falls back on a fixed entry instead of None.
MostCommonWeaknessDefault(weakness_percentages) ==
    IF Len(weakness_percentages) > 0
    THEN MaxItem(weakness_percentages, 2, weakness_percentages[1])
    ELSE Entry("normal", 0)

\* 'most_common_weakness': max(...) if weakness_percentages else None
MostCommonWeakness(weakness_percentages) ==
    IF Len(weakness_percentages) > 0
    THEN MaxItem(weakness_percentages, 2, weakness_percentages[1])
    ELSE None

\* Percentages over the names of the sample instead of the present records.
WeaknessPercentagesOverSample(count, total) ==
    [i \in 1..Len(count) |->
        Entry(count[i].k, Percentage(count[i].v, Len(sample_pokemon)))]

\* for weakness, count in weakness_count.items():
\*     weakness_percentages[weakness] = (count / total_pokemon) * 100
WeaknessPercentages(count, total) ==
    [i \in 1..Len(count) |-> Entry(count[i].k, Percentage(count[i].v, total))]

\* The call and the lines before the loop.
AnalyzeBegin(ptype, response) ==
    /\ pokemon_type' = ptype
    /\ pokemon_names' = get_pokemon_by_type(response)
    /\ sample_pokemon' = SubSeq(pokemon_names', 1, Min(SampleCap, Len(pokemon_names')))
    /\ weakness_count' = <<>>
    /\ total_pokemon' = 0
    /\ idx' = 0
    /\ fetched' = <<>>
    /\ analyzed' = EmptyBag
    /\ result' = None
    /\ exception' = "none"
    /\ pc' = "loop"

\* analyze_type_weaknesses called on its own.
AnalyzeStart(ptype, response) ==
    /\ pc \in {"idle", "returned", "raised"}
    /\ wf.pc = "idle"
    /\ AnalyzeBegin(ptype, response)
    /\ UNCHANGED <<apiVars, lookupVars, reportVars, wf>>

\* One iteration of "for name in sample_pokemon".
AnalyzeFetch(response) ==
    /\ pc = "loop"
    /\ idx < Len(sample_pokemon)
    /\ Answers(response, sample_pokemon[idx + 1])
    /\ fetched' = Append(fetched, sample_pokemon[idx + 1])
    /\ IF FetchRaises(response)
       THEN /\ pc' = "raised"
            /\ exception' = "KeyError"
            /\ UNCHANGED <<idx, total_pokemon, weakness_count, analyzed>>
       ELSE /\ LET fetched_pokemon ==
                       get_pokemon_by_name(type_effectiveness, response)
               IN /\ total_pokemon' = TotalAfterFetch(total_pokemon, fetched_pokemon)
                  /\ IF fetched_pokemon # None
                     THEN /\ \E weaknesses \in Orders(fetched_pokemon.weaknesses) :
                                weakness_count' =
                                    CountWeaknesses(weakness_count, weaknesses, 1)
                          /\ analyzed' =
                                analyzed (+) SetToBag({fetched_pokemon.weaknesses})
                     ELSE UNCHANGED <<weakness_count, analyzed>>
            /\ idx' = idx + 1
            /\ UNCHANGED <<pc, exception>>
    /\ UNCHANGED <<apiVars, lookupVars, pokemon_type, pokemon_names,
                   sample_pokemon, result, reportVars, wf>>

\* The loop is over: the percentages and the returned dict.  A count
\* divided by a total of 0 raises ZeroDivisionError.
AnalyzeReturn ==
    /\ pc = "loop"
    /\ idx = Len(sample_pokemon)
    /\ IF Len(weakness_count) > 0 /\ total_pokemon = 0
       THEN /\ exception' = "ZeroDivisionError"
            /\ pc' = "raised"
            /\ UNCHANGED result
       ELSE /\ LET weakness_percentages ==
                       WeaknessPercentages(weakness_count, total_pokemon)
               IN result' = [type |-> pokemon_type,
                             analyzed_pokemon_count |-> total_pokemon,
                             weakness_percentages |-> weakness_percentages,
                             most_common_weakness |->
                                 MostCommonWeakness(weakness_percentages)]
            /\ pc' = "returned"
            /\ UNCHANGED exception
    /\ UNCHANGED <<apiVars, lookupVars, pokemon_type, pokemon_names,
                   sample_pokemon, idx, weakness_count, total_pokemon,
                   fetched, analyzed, reportVars, wf>>

Next ==
    \/ \E response \in CategoryResponses : AnalyzeStart("fire", response)
    \/ \E response \in SampleResponses : AnalyzeFetch(response)
    \/ AnalyzeReturn

Spec == Init /\ [][Next]_vars

\* analyze_type_weaknesses has returned its dict.
Returned == pc = "returned"

\* Number of present records fetched so far.
Present == BagCardinality(analyzed)

\* Number of names fetched so far whose record was absent.
Absent == Len(fetched) - Present

RECURSIVE SumCopies(_)
SumCopies(S) ==
    IF S = {} THEN 0
    ELSE LET x == CHOOSE y \in S : TRUE
         IN CopiesIn(x, analyzed) + SumCopies(S \ {x})

\* Number of present records whose weakness set contains the weakness.
RecordsWith(weakness) == SumCopies({W \in BagToSet(analyzed) : weakness \in W})

\* The largest percentage of the returned mapping.
IsMaxPercentage(v) ==
    \A i \in 1..Len(result.weakness_percentages) :
        result.weakness_percentages[i].v <= v

\* C3: for every non-empty sequence of successfully fetched records each
\* returned percentage is (records with that weakness) / (records) * 100
\* and lies in [0, 100]; no counter exceeds the number of records analyzed.
C3_PercentagesAreFrequencies ==
    /\ \A i \in 1..Len(weakness_count) : weakness_count[i].v <= Present
    /\ (Returned /\ Present > 0) =>
          \A i \in 1..Len(result.weakness_percentages) :
             LET e == result.weakness_percentages[i]
             IN /\ e.v * Present = RecordsWith(e.k) * 100 * PctUnit
                /\ 0 <= e.v
                /\ e.v <= 100 * PctUnit

\* C3 witness: a sample with absent and present records returned a
\* percentage strictly between 0 and 100.
C3_Witness ==
    /\ Returned
    /\ Absent > 0
    /\ Present > 1
    /\ \E i \in 1..Len(result.weakness_percentages) :
          /\ result.weakness_percentages[i].v > 0
          /\ result.weakness_percentages[i].v < 100 * PctUnit

\* C4: the returned mode is an entry of weakness_percentages with the
\* maximum percentage, and of several entries with the maximum it is the
\* one inserted first into the counter.
C4_ModeIsFirstMaximum ==
    (Returned /\ Len(result.weakness_percentages) > 0) =>
        LET wp == result.weakness_percentages
            mode == result.most_common_weakness
        IN /\ [i \in 1..Len(wp) |-> wp[i].k] =
                  [i \in 1..Len(weakness_count) |-> weakness_count[i].k]
           /\ \E i \in 1..Len(wp) :
                 /\ wp[i] = mode
                 /\ IsMaxPercentage(wp[i].v)
                 /\ \A j \in 1..(i - 1) : wp[j].v < wp[i].v

\* C4 witness: two weaknesses share the maximum and the mode is the first
\* of them, which is not the first weakness of the table's order.
C4_Witness ==
    /\ Returned
    /\ Len(result.weakness_percentages) = 2
    /\ result.weakness_percentages[1].v = result.weakness_percentages[2].v
    /\ result.weakness_percentages[1].k = "grass"
    /\ result.most_common_weakness.k = "grass"

\* C5: when the sample is empty (no names, or every fetch absent) the call
\* returns a count of 0, an empty mapping and no mode.
C5_EmptySampleResult ==
    (pc \in {"returned", "raised"} /\ Present = 0) =>
        /\ Returned
        /\ result.analyzed_pokemon_count = 0
        /\ result.weakness_percentages = <<>>
        /\ result.most_common_weakness = None

\* C5 witness: every fetch of a sample of several names was absent.
C5_Witness ==
    /\ Returned
    /\ Len(fetched) > 1
    /\ Present = 0

\* Every present record fetched so far has an empty weakness set.
AllWeaknessesEmpty == \A w \in BagToSet(analyzed) : w = {}

\* C21: in every returned result the mode is None exactly when
\* weakness_percentages is empty; so a non-empty sample of records that all
\* have empty weakness sets returns a count above 0 with no mode, and a
\* mode that is present is an entry of weakness_percentages, key and
\* percentage.
C21_ModeNoneIffNoPercentages ==
    Returned =>
        LET wp == result.weakness_percentages
            mode == result.most_common_weakness
        IN /\ (mode = None) <=> (Len(wp) = 0)
           /\ (Present > 0 /\ AllWeaknessesEmpty) =>
                  /\ result.analyzed_pokemon_count > 0
                  /\ Len(wp) = 0
                  /\ mode = None
           /\ IF mode = None THEN TRUE
              ELSE \E i \in 1..Len(wp) :
                      /\ wp[i].k = mode.k
                      /\ wp[i].v = mode.v

\* C21 witness: a sample of several present records, all without
\* weaknesses, returned a positive count and no mode.
C21_Witness ==
    /\ Returned
    /\ Present > 1
    /\ AllWeaknessesEmpty
    /\ result.analyzed_pokemon_count > 1
    /\ result.most_common_weakness = None

\* C6: an absent record is skipped and the batch goes on: whatever the
\* pattern of absent and present fetches, every name of the sample is
\* fetched, the counters count the present records only, and the returned
\* count and percentages are over the present records.
C6_AbsentRecordsSkipped ==
    /\ total_pokemon = Present
    /\ \A i \in 1..Len(weakness_count) :
          /\ weakness_count[i].v = RecordsWith(weakness_count[i].k)
          /\ weakness_count[i].v > 0
    /\ pc \in {"returned", "raised"} =>
          /\ Returned
          /\ fetched = sample_pokemon
          /\ result.analyzed_pokemon_count = Present
          /\ Len(result.weakness_percentages) = Len(weakness_count)
          /\ \A i \in 1..Len(result.weakness_percentages) :
                LET e == result.weakness_percentages[i]
                IN /\ e.k = weakness_count[i].k
                   /\ e.v * Present = weakness_count[i].v * 100 * PctUnit

\* C6 witness: an absent fetch was followed by a present one and the call
\* returned a count smaller than the sample.
C6_Witness ==
    /\ Returned
    /\ Absent > 0
    /\ Present > 0
    /\ result.analyzed_pokemon_count < Len(sample_pokemon)

\* C8: analyze_type_weaknesses raises no exception; the division by the
\* analyzed count happens only with a count of at least 1.
C8_AnalyzeNeverRaises ==
    /\ exception = "none"
    /\ pc # "raised"
    /\ Len(weakness_count) > 0 => total_pokemon >= 1

\* C8 witness: a call with absent fetches returned after dividing.
C8_Witness ==
    /\ Returned
    /\ Absent > 0
    /\ Len(result.weakness_percentages) > 0

(***************************************************************************)
(* analyze_type_weaknesses over a data source that serves records weak to  *)
(* water and ground, and to water only                                     *)
(***************************************************************************)
\* fire/ground is weak to water and ground (rock, grass and ice resisted),
\* fire/bug/steel to water only.
ScenarioTypeLists == { <<"fire", "ground">>, <<"fire", "bug", "steel">> }

ScenarioResponses ==
    {Response(200, RawData(name, types, SampleStats)) :
        name \in 1..MaxNames, types \in ScenarioTypeLists}
    \cup {NotFound, RequestException}

NextScenario ==
    \/ \E response \in CategoryResponses : AnalyzeStart("fire", response)
    \/ \E response \in ScenarioResponses : AnalyzeFetch(response)
    \/ AnalyzeReturn

SpecScenario == Init /\ [][NextScenario]_vars

\* The present records are one weak to water and ground and one weak to
\* water.
TwoRecordSample ==
    analyzed = SetToBag({{"water", "ground"}, {"water"}})

\* C15: for the two-record sample with weakness sets {water, ground} and
\* {water} the result is {water: 100.0, ground: 50.0} with mode
\* (water, 100.0), in whatever order the weaknesses are iterated.
C15_TwoRecordScenario ==
    (Returned /\ TwoRecordSample) =>
        /\ Len(result.weakness_percentages) = 2
        /\ Range(result.weakness_percentages) =
              {Entry("water", 100 * PctUnit), Entry("ground", 50 * PctUnit)}
        /\ result.most_common_weakness = Entry("water", 100 * PctUnit)
        /\ result.analyzed_pokemon_count = 2

\* C15 witness: the sample was analyzed with ground iterated before water.
C15_Witness ==
    /\ Returned
    /\ TwoRecordSample
    /\ Len(fetched) = 2
    /\ result.weakness_percentages[1].k = "ground"

(***************************************************************************)
(* analyze_type_weaknesses over a data source that serves present records  *)
(* with missing parts                                                      *)
(***************************************************************************)
PartialStats == CHOOSE stats \in StatLists : Len(stats) < 6

\* Raw data of an electric type without its name, without its type list
\* and without its stats list.
MalformedData ==
    { [types |-> <<"electric">>, stats |-> SampleStats],
      [name |-> 1, stats |-> SampleStats],
      [name |-> 1, types |-> <<"electric">>] }

\* Served for the first name: data with missing stats, data with a missing
\* key, or no record.
MalformedResponses ==
    {Response(200, RawData(1, <<"electric">>, PartialStats))}
    \cup {Response(200, data) : data \in MalformedData}
    \cup {NotFound}

NextMalformed ==
    \/ \E response \in CategoryResponses : AnalyzeStart("fire", response)
    \/ \E response \in SampleResponses \cup MalformedResponses :
          AnalyzeFetch(response)
    \/ AnalyzeReturn

SpecMalformed == Init /\ [][NextMalformed]_vars

\* C16: for a fetched record that is present but lacks a stat, its name,
\* its types list or its stats list, normalization and the aggregation
\* complete without raising.
C16_MalformedInputNeverRaises ==
    /\ exception # "KeyError"
    /\ pc # "raised"

\* C17: the chart has exactly 18 entries, is the same chart whether the
\* /type request succeeded, returned another status or raised a request
\* error, and is left unchanged by every later fetch and analysis.
C17_ChartFixed ==
    /\ Cardinality(DOMAIN type_effectiveness) = 18
    /\ \A outcome \in LoadOutcomes :
          type_effectiveness = _load_type_effectiveness(outcome)
    /\ type_effectiveness = _get_simplified_type_chart

\* C17 witness: an analysis that fetched and parsed several records has
\* returned and the chart still has its fire entry.
C17_Witness ==
    /\ Returned
    /\ Present > 1
    /\ "fire" \in DOMAIN type_effectiveness

\* C19: only the first min(10, n) of the n names returned for the
\* category are fetched, in their returned order; no name beyond the tenth
\* is fetched and the analyzed count never exceeds min(10, n).
C19_OnlyFirstTenExamined ==
    LET n == Len(pokemon_names)
        m == IF n < 10 THEN n ELSE 10
    IN /\ Len(fetched) <= m
       /\ \A i \in 1..Len(fetched) : fetched[i] = pokemon_names[i]
       /\ total_pokemon <= m
       /\ Returned =>
             /\ Len(fetched) = m
             /\ result.analyzed_pokemon_count <= m

\* C19 witness: a category of more than ten names was analyzed, every
\* fetched record present.
C19_Witness ==
    /\ Returned
    /\ Len(pokemon_names) > 10
    /\ Len(fetched) = 10
    /\ result.analyzed_pokemon_count = 10

(***************************************************************************)
(* ReporterAgent.generate_report                                           *)
(***************************************************************************)
\* A line of the report: fixed text, or a kind of formatted line with the
\* text and the number put into it.
Line(kind, text, num) == [kind |-> kind, text |-> text, num |-> num]

Text(text) == Line("text", text, 0)

\* str.title() on a type name
Title(w) ==
    CASE w = "water" -> "Water"
      [] w = "ground" -> "Ground"
      [] w = "rock" -> "Rock"
      [] w = "electric" -> "Electric"
      [] w = "grass" -> "Grass"
      [] w = "fire" -> "Fire"
      [] OTHER -> w

\* f"{percentage:.1f}": the percentage rounded to a number of tenths.  No
\* percentage count / total * 100 with total <= SampleCap lies halfway
\* between two tenths.
Format1(percentage) == (percentage * 20 + PctUnit) \div (2 * PctUnit)

\* An insertion that puts an item before the items of equal percentage.
InsertDescendingUnstable(sorted, e) ==
    LET n == Cardinality({j \in 1..Len(sorted) : sorted[j].v > e.v})
    IN SubSeq(sorted, 1, n) \o <<e>> \o SubSeq(sorted, n + 1, Len(sorted))

\* An insertion that orders by ascending percentage (reverse=True left out).
InsertAscending(sorted, e) ==
    LET n == Cardinality({j \in 1..Len(sorted) : sorted[j].v <= e.v})
    IN SubSeq(sorted, 1, n) \o <<e>> \o SubSeq(sorted, n + 1, Len(sorted))

\* sorted(..., key=lambda x: x[1], reverse=True) is stable: an item goes
\* after the items whose percentage is greater or equal.
InsertDescending(sorted, e) ==
    LET n == Cardinality({j \in 1..Len(sorted) : sorted[j].v >= e.v})
    IN SubSeq(sorted, 1, n) \o <<e>> \o SubSeq(sorted, n + 1, Len(sorted))

RECURSIVE SortedDescending(_, _, _)
SortedDescending(items, i, sorted) ==
    IF i > Len(items) THEN sorted
    ELSE SortedDescending(items, i + 1, InsertDescending(sorted, items[i]))

\* report_sections.append(f"  - {weakness.title()}: {percentage:.1f}%")
WeaknessLines(weakness_percentages) ==
    LET sorted == SortedDescending(weakness_percentages, 1, <<>>)
    IN [i \in 1..Len(sorted) |->
           Line("weakness", Title(sorted[i].k), Format1(sorted[i].v))]

HasKey(d, key) == key \in DOMAIN d

SummarySection(data) ==
    <<Text("# Pokemon Research Report"), Text("## Executive Summary")>>
    \o (IF HasKey(data, "weakness_analysis")
        THEN <<Line("analysis_of",
                    IF HasKey(data.weakness_analysis, "type")
                    THEN data.weakness_analysis.type ELSE "Unknown", 0)>>
        ELSE <<>>)

MethodologySection ==
    <<Text("## Methodology"),
      Text("Data collected via PokeAPI with statistical analysis performed on type effectiveness and base stats.")>>

FindingsSection(data) ==
    <<Text("## Key Findings")>>
    \o (IF HasKey(data, "weakness_analysis")
        THEN LET weakness_data == data.weakness_analysis
             IN <<Line("analyzed", "",
                       IF HasKey(weakness_data, "analyzed_pokemon_count")
                       THEN weakness_data.analyzed_pokemon_count ELSE 0)>>
                \o (IF HasKey(weakness_data, "most_common_weakness")
                       /\ weakness_data.most_common_weakness # None
                    THEN <<Line("most_common",
                                Title(weakness_data.most_common_weakness.k),
                                Format1(weakness_data.most_common_weakness.v))>>
                    ELSE <<>>)
                \o (IF HasKey(weakness_data, "weakness_percentages")
                    THEN <<Text("- Weakness distribution:")>>
                         \o WeaknessLines(weakness_data.weakness_percentages)
                    ELSE <<>>)
        ELSE <<>>)

RecommendationsSection ==
    <<Text("## Strategic Recommendations"),
      Text("Based on the analysis, trainers should consider type coverage and defensive strategies when building teams.")>>

\* "\n\n".join(report_sections)
Separator == Line("separator", "\n\n", 0)

\* A join that also puts the separator after the last item.
RECURSIVE JoinTrailing(_, _)
JoinTrailing(sections, i) ==
    IF i > Len(sections) THEN <<>>
    ELSE <<sections[i], Separator>> \o JoinTrailing(sections, i + 1)

RECURSIVE Join(_, _)
Join(sections, i) ==
    IF i > Len(sections) THEN <<>>
    ELSE IF i = Len(sections) THEN <<sections[i]>>
    ELSE <<sections[i], Separator>> \o Join(sections, i + 1)

generate_report(data) ==
    SummarySection(data) \o MethodologySection
    \o FindingsSection(data) \o RecommendationsSection

\* Longest weakness_percentages mapping given to generate_report.
MaxEntries == 3

ReportKeys == {"water", "ground", "rock", "electric"}

\* The percentages of a sample of three records.
ReportPercentages == {Percentage(c, 3) : c \in 1..3}

Injective(f) == \A i, j \in DOMAIN f : f[i] = f[j] => i = j

ReportMappings ==
    UNION {{[i \in 1..n |-> Entry(keys[i], values[i])] :
               keys \in {f \in [1..n -> ReportKeys] : Injective(f)},
               values \in [1..n -> ReportPercentages]} : n \in 0..MaxEntries}

\* The dicts given to generate_report: the dict analyze_type_weaknesses
\* returns for a mapping, the same without its mapping, and a dict without
\* a weakness analysis.
ReportInputs ==
    {[weakness_analysis |->
          [type |-> "fire", analyzed_pokemon_count |-> 3,
           weakness_percentages |-> m,
           most_common_weakness |-> MostCommonWeakness(m)],
      pokemon_stats |-> <<>>] : m \in ReportMappings}
    \cup {[weakness_analysis |-> [analyzed_pokemon_count |-> 3],
           pokemon_stats |-> <<>>],
          [pokemon_stats |-> <<>>]}

InitReport ==
    /\ Constructed /\ NoLookup /\ NoAnalysis /\ wf = WfIdle
    /\ research_data \in ReportInputs
    /\ report_sections = <<>>
    /\ report = <<>>

GenerateReport ==
    /\ research_data # None
    /\ report = <<>>
    /\ report_sections' = generate_report(research_data)
    /\ report' = Join(report_sections', 1)
    /\ UNCHANGED <<apiVars, lookupVars, analyzeVars, research_data, wf>>

NextReport == GenerateReport

SpecReport == InitReport /\ [][NextReport]_vars

\* generate_report has returned.
Reported == report # <<>>

\* The weakness_percentages mapping given to generate_report.
GivenMapping ==
    IF HasKey(research_data, "weakness_analysis")
       /\ HasKey(research_data.weakness_analysis, "weakness_percentages")
    THEN research_data.weakness_analysis.weakness_percentages
    ELSE <<>>

\* The weakness lines of the findings section, in the order emitted.
EmittedWeaknessLines == SelectSeq(report_sections, LAMBDA l : l.kind = "weakness")

\* Position in the given mapping of the entry a weakness line was made of.
MappingIndex(line) ==
    CHOOSE i \in 1..Len(GivenMapping) : Title(GivenMapping[i].k) = line.text

\* C9 as stated: the weakness lines are strictly sorted by descending
\* percentage, each line's percentage greater than the next line's.
C9_WeaknessLinesStrictlyDescending ==
    Reported =>
        \A i \in 1..(Len(EmittedWeaknessLines) - 1) :
            EmittedWeaknessLines[i].num > EmittedWeaknessLines[i + 1].num

\* C9 amended: the weakness lines are sorted by descending percentage, each
\* line's percentage greater than or equal to the next line's.
C9_WeaknessLinesDescending ==
    Reported =>
        /\ Len(EmittedWeaknessLines) = Len(GivenMapping)
        /\ \A i \in 1..(Len(EmittedWeaknessLines) - 1) :
              EmittedWeaknessLines[i].num >= EmittedWeaknessLines[i + 1].num

\* C9 witness: a report was made of a mapping that lists a smaller
\* percentage before a larger one.
C9_Witness ==
    /\ Reported
    /\ Len(GivenMapping) = 3
    /\ GivenMapping[1].v < GivenMapping[2].v
    /\ GivenMapping[2].v < GivenMapping[3].v

\* C10: weakness entries of equal percentage are emitted in the order they
\* have in the given mapping, entries of different percentage in descending
\* order.
C10_TiesKeepMappingOrder ==
    Reported =>
        /\ Len(EmittedWeaknessLines) = Len(GivenMapping)
        /\ \A a, b \in 1..Len(EmittedWeaknessLines) :
              a < b =>
                LET ea == GivenMapping[MappingIndex(EmittedWeaknessLines[a])]
                    eb == GivenMapping[MappingIndex(EmittedWeaknessLines[b])]
                IN /\ ea.v >= eb.v
                   /\ ea.v = eb.v =>
                         MappingIndex(EmittedWeaknessLines[a])
                             < MappingIndex(EmittedWeaknessLines[b])

\* C10 witness: a report was made of a mapping with two entries of equal
\* percentage after an entry of smaller percentage.
C10_Witness ==
    /\ Reported
    /\ Len(GivenMapping) = 3
    /\ GivenMapping[1].v < GivenMapping[2].v
    /\ GivenMapping[2].v = GivenMapping[3].v
    /\ Len(EmittedWeaknessLines) = 3

\* The positions of a heading among the emitted items.
HeadingAt(text) ==
    {i \in 1..Len(report_sections) : report_sections[i] = Text(text)}

\* The emitted items of the kinds, all after position lo and before hi.
KindsBetween(kinds, lo, hi) ==
    \A i \in 1..Len(report_sections) :
        report_sections[i].kind \in kinds => (lo < i /\ i < hi)

\* C18: for every input the output is the sections summary, methodology,
\* findings, recommendations in that order, every two consecutive emitted
\* items separated by exactly one blank line; the four headings are there
\* even without a weakness_analysis entry.
C18_SectionsInFixedOrder ==
    Reported =>
        /\ \E s, m, f, r \in 1..Len(report_sections) :
              /\ HeadingAt("## Executive Summary") = {s}
              /\ HeadingAt("## Methodology") = {m}
              /\ HeadingAt("## Key Findings") = {f}
              /\ HeadingAt("## Strategic Recommendations") = {r}
              /\ s < m /\ m < f /\ f < r
              /\ KindsBetween({"analysis_of"}, s, m)
              /\ KindsBetween({"analyzed", "most_common", "weakness"}, f, r)
        /\ Len(report) = 2 * Len(report_sections) - 1
        /\ \A i \in 1..Len(report) :
              IF i % 2 = 1
              THEN /\ report[i] = report_sections[(i + 1) \div 2]
                   /\ report[i] # Separator
              ELSE report[i] = Separator

\* C18 witness: a report was made of a dict without a weakness analysis.
C18_Witness ==
    /\ Reported
    /\ ~HasKey(research_data, "weakness_analysis")
    /\ Len(report_sections) = 7

(***************************************************************************)
(* A single lookup: get_pokemon_by_name called on its own, as in           *)
(* simple_pokemon_lookup.  The response of the data source is drawn by the *)
(* initial state.                                                          *)
(***************************************************************************)
LookupResponses ==
    {Response(200, RawData("charizard", types, stats)) :
        types \in TypeLists, stats \in StatLists}
    \cup {NotFound, RequestException}

InitLookup ==
    /\ Constructed /\ NoAnalysis /\ NoReport /\ wf = WfIdle
    /\ source \in LookupResponses
    /\ pokemon = None

GetPokemonByName ==
    /\ source # None
    /\ pokemon = None
    /\ pokemon' = [returned |-> get_pokemon_by_name(type_effectiveness, source)]
    /\ UNCHANGED <<apiVars, source, analyzeVars, reportVars, wf>>

NextLookup == GetPokemonByName

SpecLookup == InitLookup /\ [][NextLookup]_vars

\* The lookup has returned a record (not None).
LookupReturnedRecord == pokemon # None /\ pokemon.returned # None

\* The types of the raw data that are keys of the chart.
KnownTypes(data) == Range(data.types) \cap DOMAIN type_effectiveness

\* C1: for every type list the record produced by _parse_pokemon_data has
\* no element that is both a weakness and a resistance.
C1_WeaknessesDisjointFromResistances ==
    LookupReturnedRecord =>
        pokemon.returned.weaknesses \cap pokemon.returned.resistances = {}

\* C1 witness: a fire/flying record, where ice is a weakness of flying and
\* a resistance of fire, has been produced.
C1_Witness ==
    /\ LookupReturnedRecord
    /\ pokemon.returned.types = <<"fire", "flying">>
    /\ "ice" \in Range(type_effectiveness["flying"].weaknesses)
    /\ "ice" \in pokemon.returned.resistances

\* C2: the resolver's result is the reference computation: resistances are
\* the union of the chart's resistances over the listed types that are chart
\* keys, weaknesses are the union of the chart's weaknesses over those types
\* minus that resistance union.
C2_ResolverEqualsReference ==
    LookupReturnedRecord =>
        LET known == KnownTypes(source.data)
            res == UNION {Range(type_effectiveness[t].resistances) : t \in known}
            weak == UNION {Range(type_effectiveness[t].weaknesses) : t \in known}
        IN /\ pokemon.returned.resistances = res
           /\ pokemon.returned.weaknesses = weak \ res

\* C2 witness: a record was produced from two different known types whose
\* weakness union loses an element to the resistance union.
C2_Witness ==
    /\ LookupReturnedRecord
    /\ Cardinality(KnownTypes(source.data)) = 2
    /\ \E t \in KnownTypes(source.data) :
          Range(type_effectiveness[t].weaknesses) \cap pokemon.returned.resistances # {}

\* The type list without the types that are not keys of the chart.
WithoutUnknown(types) ==
    SelectSeq(types, LAMBDA t : t \in DOMAIN type_effectiveness)

\* The record _parse_pokemon_data makes of the looked-up data with another
\* type list.
ParsedWithTypes(types) ==
    _parse_pokemon_data(type_effectiveness, [source.data EXCEPT !.types = types])

SameSets(p, q) ==
    p.weaknesses = q.weaknesses /\ p.resistances = q.resistances

\* C11: a type that is not a key of the chart is skipped without error: the
\* result for a list with unknown types is the result for the same list
\* with the unknown types removed.
C11_UnknownTypesSkipped ==
    LookupReturnedRecord =>
        SameSets(pokemon.returned,
                 ParsedWithTypes(WithoutUnknown(source.data.types)))

\* C11 witness: a record was produced from an unknown type followed by a
\* known one and has the known type's weaknesses.
C11_Witness ==
    /\ LookupReturnedRecord
    /\ source.data.types = <<UnknownType, "fire">>
    /\ pokemon.returned.weaknesses # {}

\* C12: an empty type list yields an empty weakness set and an empty
\* resistance set.
C12_EmptyTypeListEmptySets ==
    (LookupReturnedRecord /\ source.data.types = <<>>) =>
        /\ pokemon.returned.weaknesses = {}
        /\ pokemon.returned.resistances = {}

\* C12 witness: a record was produced from data with an empty type list.
C12_Witness ==
    /\ LookupReturnedRecord
    /\ pokemon.returned.types = <<>>
    /\ source.data.types = <<>>

\* C13: types ["fire", "flying"] resolve to weaknesses {water, ground,
\* rock, electric} (ice removed, fire resists it) and resistances {fire,
\* grass, ice, bug, steel, fairy, fighting}.
C13_FireFlyingScenario ==
    (LookupReturnedRecord /\ source.data.types = <<"fire", "flying">>) =>
        /\ pokemon.returned.weaknesses = {"water", "ground", "rock", "electric"}
        /\ pokemon.returned.resistances =
              {"fire", "grass", "ice", "bug", "steel", "fairy", "fighting"}

\* C13 witness: a record was produced from data of types fire and flying.
C13_Witness ==
    /\ LookupReturnedRecord
    /\ source.data.types = <<"fire", "flying">>
    /\ Cardinality(pokemon.returned.weaknesses) = 4

\* C14: the single type "fire" resolves to weaknesses {water, ground, rock}
\* and resistances {fire, grass, ice, bug, steel, fairy}.
C14_FireScenario ==
    (LookupReturnedRecord /\ source.data.types = <<"fire">>) =>
        /\ pokemon.returned.weaknesses = {"water", "ground", "rock"}
        /\ pokemon.returned.resistances =
              {"fire", "grass", "ice", "bug", "steel", "fairy"}

\* C14 witness: a record was produced from data of the single type fire.
C14_Witness ==
    /\ LookupReturnedRecord
    /\ source.data.types = <<"fire">>
    /\ pokemon.returned.types = <<"fire">>

\* The type lists made of a list by permuting it or by repeating one of
\* its types at the front or at the end.
Rearranged(types) ==
    {[i \in 1..Len(types) |-> types[perm[i]]] : perm \in Orders(1..Len(types))}
    \cup {Append(types, t) : t \in Range(types)}
    \cup {<<t>> \o types : t \in Range(types)}

\* C20: the resolver's result depends on the set of types only: permuting
\* the type list or repeating a type in it leaves both sets unchanged.
C20_ResultDependsOnTypeSet ==
    LookupReturnedRecord =>
        \A types \in Rearranged(source.data.types) :
            SameSets(pokemon.returned, ParsedWithTypes(types))

\* C20 witness: a record was produced from two different known types whose
\* weaknesses differ.
C20_Witness ==
    /\ LookupReturnedRecord
    /\ source.data.types = <<"fire", "water">>
    /\ pokemon.returned.weaknesses # {}

(***************************************************************************)
(* fire_type_weakness_analysis                                             *)
(***************************************************************************)
fire_pokemon_names == <<"charmander", "vulpix", "growlithe", "ponyta", "magmar">>

\* The data source answers a detailed fetch with the fire-type data of the
\* name, with another status or with a request error.
DetailResponses ==
    {Response(200, RawData(name, <<"fire">>, SampleStats)) :
        name \in Range(fire_pokemon_names)}
    \cup {NotFound, RequestException}

\* The dict appended to fire_pokemon_data.
PokemonDict(p) ==
    [name |-> p.name, types |-> p.types, hp |-> p.hp, attack |-> p.attack,
     defense |-> p.defense, special_attack |-> p.special_attack,
     special_defense |-> p.special_defense, speed |-> p.speed,
     weaknesses |-> p.weaknesses, resistances |-> p.resistances]

\* pokemon_api.analyze_type_weaknesses("fire") is called.
WfStart(response) ==
    /\ wf.pc = "idle"
    /\ pc = "idle"
    /\ AnalyzeBegin("fire", response)
    /\ wf' = [wf EXCEPT !.pc = "analysis"]
    /\ UNCHANGED <<apiVars, lookupVars, reportVars>>

\* The call returns (or raises) into the workflow; its frame is dropped.
WfAnalysisReturned ==
    /\ wf.pc = "analysis"
    /\ pc \in {"returned", "raised"}
    /\ IF pc = "returned"
       THEN wf' = [wf EXCEPT !.pc = "collect", !.fire_type_analysis = result]
       ELSE wf' = [wf EXCEPT !.pc = "raised", !.exception = exception]
    /\ pc' = "idle"
    /\ pokemon_type' = ""
    /\ pokemon_names' = <<>>
    /\ sample_pokemon' = <<>>
    /\ idx' = 0
    /\ weakness_count' = <<>>
    /\ total_pokemon' = 0
    /\ fetched' = <<>>
    /\ analyzed' = EmptyBag
    /\ result' = None
    /\ exception' = "none"
    /\ UNCHANGED <<apiVars, lookupVars, reportVars>>

\* One iteration of "for name in fire_pokemon_names".
WfFetchDetail(response) ==
    /\ wf.pc = "collect"
    /\ wf.fetched < Len(fire_pokemon_names)
    /\ Answers(response, fire_pokemon_names[wf.fetched + 1])
    /\ LET pokemon_data == get_pokemon_by_name(type_effectiveness, response)
       IN wf' = [wf EXCEPT
                   !.fetched = @ + 1,
                   !.fire_pokemon_data =
                       IF pokemon_data # None
                       THEN Append(@, PokemonDict(pokemon_data))
                       ELSE @]
    /\ UNCHANGED <<apiVars, lookupVars, analyzeVars, reportVars>>

\* Phase 3: the names the charts and the CSV file bind.  The rendering sink
\* returns a path for every call.
BoundByVisualization(fire_type_analysis, fire_pokemon_data) ==
    (IF Len(fire_type_analysis.weakness_percentages) > 0
     THEN {"weakness_chart_path"} ELSE {})
    \cup (IF Len(fire_pokemon_data) > 0 THEN {"stats_chart_path"} ELSE {})
    \cup {"summary_chart_path", "csv_path"}

WfVisualize ==
    /\ wf.pc = "collect"
    /\ wf.fetched = Len(fire_pokemon_names)
    /\ wf' = [wf EXCEPT
                !.pc = "report",
                !.bound = BoundByVisualization(wf.fire_type_analysis,
                                               wf.fire_pokemon_data)]
    /\ UNCHANGED <<apiVars, lookupVars, analyzeVars, reportVars>>

\* Phase 4: the report is generated and written.
WfReport ==
    /\ wf.pc = "report"
    /\ research_data' = [weakness_analysis |-> wf.fire_type_analysis,
                         pokemon_stats |-> wf.fire_pokemon_data]
    /\ report_sections' = generate_report(research_data')
    /\ report' = Join(report_sections', 1)
    /\ wf' = [wf EXCEPT !.pc = "summary", !.bound = @ \cup {"report_path"}]
    /\ UNCHANGED <<apiVars, lookupVars, analyzeVars>>

\* The key findings, the list of generated files and the return: the
\* averages divide by len(fire_pokemon_data), the list of files reads the
\* chart paths.
SummaryException(fire_pokemon_data, bound) ==
    IF Len(fire_pokemon_data) = 0 THEN "ZeroDivisionError"
    ELSE IF "weakness_chart_path" \notin bound THEN "UnboundLocalError"
    ELSE IF "stats_chart_path" \notin bound THEN "UnboundLocalError"
    ELSE "none"

WfSummary ==
    /\ wf.pc = "summary"
    /\ LET raised == SummaryException(wf.fire_pokemon_data, wf.bound)
       IN wf' = [wf EXCEPT
                   !.pc = IF raised = "none" THEN "returned" ELSE "raised",
                   !.exception = raised]
    /\ UNCHANGED <<apiVars, lookupVars, analyzeVars, reportVars>>

NextWorkflow ==
    \/ \E response \in CategoryResponses : WfStart(response)
    \/ \E response \in SampleResponses : AnalyzeFetch(response)
    \/ AnalyzeReturn
    \/ WfAnalysisReturned
    \/ \E response \in DetailResponses : WfFetchDetail(response)
    \/ WfVisualize
    \/ WfReport
    \/ WfSummary

SpecWorkflow == Init /\ [][NextWorkflow]_vars

\* C7: whatever fetches are absent, fire_type_weakness_analysis runs to
\* completion and returns its result dictionary without raising.
C7_WorkflowNeverRaises ==
    /\ wf.pc # "raised"
    /\ wf.exception = "none"

====
